---- MODULE Spec2Model ----
(***************************************************************************)
(* pulp_file/app/tasks.py: the sync and publish tasks of the file plugin   *)
(* and the Synchronizer they drive.                                        *)
(*                                                                         *)
(* One repository, its importers, its RepositoryVersions, the              *)
(* CreatedResource records and the Publications are the persisted state.   *)
(* Each sync task walks sync() and Synchronizer.run() statement block by   *)
(* statement block; the ChangeSet applies one addition or one removal per  *)
(* step, in any order.  Under Spec one worker runs the syncs of the        *)
(* repository one after another, and publish reads concurrently.  Under    *)
(* SpecSynchronizer one Synchronizer runs over every old version and       *)
(* manifest; under SpecConcurrent two sync tasks interleave.               *)
(***************************************************************************)
EXTENDS Integers, Sequences, FiniteSets, TLC

\* ---------------------------------------------------------------- bounds
MaxLen == 2            \* lines of a remote manifest
MaxVersion == 2        \* sync runs that get to create a version
BatchSize == 2         \* keys in one batch of the BatchIterator

\* ---------------------------------------------------------------- domains
Tasks == {"t1", "t2"}
Importers == {"imp_feed", "imp_nofeed"}
None == 0              \* "no version" (version numbers start at 1)

\* importer.feed_url, split as urlparse splits it: netloc, directory, file name.
NoUrl == <<>>
feed_url(imp) == IF imp = "imp_feed" THEN <<"host", "dir", "PULP_MANIFEST">> ELSE NoUrl

\* pulp_file.manifest.Entry
Entry(path, digest, size) == [path |-> path, digest |-> digest, size |-> size]
\* Natural key.
Key(path, digest) == [path |-> path, digest |-> digest]

\* The entries a manifest is made of: one key listed with two sizes, one path
\* with two digests, and a second path.
Entries == {Entry("a", "d1", 10), Entry("a", "d1", 20),
            Entry("a", "d2", 10), Entry("b", "d1", 10)}
Keys == {Key(e.path, e.digest) : e \in Entries}

SeqsUpTo(S, n) == UNION {[1..k -> S] : k \in 0..n}
Manifests == SeqsUpTo(Entries, MaxLen)

VARIABLES
    last_version,       \* Repository.last_version, as persisted
    versions,           \* the persisted RepositoryVersions: [number, complete, content]
    created_resources,  \* the persisted CreatedResource records
    publications,       \* the persisted Publications, each named by the version it publishes
    published_metadata, \* the persisted PublishedMetadata, each named by its publication
    task,               \* each sync task: its position and the locals of sync()
    syn,                \* each sync task's Synchronizer object
    mirror,             \* the mirror argument each task passes to _find_delta
    run_returned,       \* history: the numbers of the versions whose Synchronizer.run() returned
    last_synced,        \* history: the latest such version and the keys its manifest listed
    pub                 \* the publish task: its position and locals

vars == <<last_version, versions, created_resources, publications,
          published_metadata, task, syn, mirror, run_returned, last_synced, pub>>

\* ------------------------------------------------------- persisted store
VersionNumbers == {v.number : v \in versions}
Version(n) == CHOOSE v \in versions : v.number = n
Content(n) == Version(n).content

Max(S) == CHOOSE x \in S : \A y \in S : y <= x

\* The highest version number of all, None when there is no version.
LatestAny(vs) ==
    IF vs = {} THEN None ELSE Max({v.number : v \in vs})

\* Mutant: latest() without exclude(complete=False).
LatestIncludingIncomplete(vs) == LatestAny(vs)

\* repository.versions.exclude(complete=False).latest(), None for DoesNotExist
LatestComplete(vs) ==
    LET done == {v \in vs : v.complete} IN
    IF done = {} THEN None ELSE Max({v.number : v \in done})

VersionResource(n) == [kind |-> "version", id |-> n]
PublicationResource(p) == [kind |-> "publication", id |-> p]

\* --------------------------------------------------------- the manifest
\* Manifest.read(): the entries of the manifest file, in file order.
ManifestRead(m) == m

\* set([Key(path=e.path, digest=e.digest) for e in self._manifest.read()])
remote_keys(m) == {Key(ManifestRead(m)[i].path, ManifestRead(m)[i].digest) :
                     i \in 1..Len(ManifestRead(m))}

\* ------------------------------------------------------- Synchronizer
\* Synchronizer.__init__
SynInit == [manifest |-> <<>>,
            inventory_keys |-> {},
            keys_to_add |-> {},
            keys_to_remove |-> {},
            additions |-> <<>>,
            removals |-> {},
            applied_add |-> {},
            applied_rem |-> {}]

\* Mutant: the inventory is never read.
fetch_inventory_skipped(old_version, vs, inventory_keys) == inventory_keys

\* _fetch_inventory: the keys of the old version's content; nothing is read
\* when there is no old version.
fetch_inventory(old_version, vs, inventory_keys) ==
    IF old_version # None
    THEN inventory_keys \cup
         {Key(c.path, c.digest) : c \in (CHOOSE v \in vs : v.number = old_version).content}
    ELSE inventory_keys

\* Mutant: the inventory is not subtracted from the remote keys.
keys_to_add_all_remote(m, inventory_keys) == remote_keys(m)

\* _find_delta: self._keys_to_add
keys_to_add(m, inventory_keys) == remote_keys(m) \ inventory_keys

\* Mutant: under mirror the whole inventory is to be removed.
keys_to_remove_whole_inventory(m, inventory_keys, mir, before) ==
    IF mir THEN inventory_keys ELSE before

\* Mutant: the removals are computed whatever mirror says.
keys_to_remove_ignoring_mirror(m, inventory_keys, mir, before) ==
    inventory_keys \ remote_keys(m)

\* _find_delta: self._keys_to_remove, assigned only under mirror
keys_to_remove(m, inventory_keys, mir, before) ==
    IF mir THEN inventory_keys \ remote_keys(m) ELSE before

\* The url of an entry: the feed url with its path replaced by
\* join(dirname(feed path), entry.path).
EntryUrl(feed, path) == <<feed[1], feed[2], path>>

\* PendingContent(FileContent(path, digest), {PendingArtifact(Artifact(size, sha256), url, path)})
PendingContent(e, feed) ==
    [path |-> e.path, digest |-> e.digest, size |-> e.size,
     url |-> EntryUrl(feed, e.path)]

\* Mutant: the descriptors come out last line first.
RECURSIVE build_additions_reversed(_, _, _)
build_additions_reversed(m, to_add, feed) ==
    IF m = <<>> THEN <<>>
    ELSE LET entry == Head(m)
             rest == build_additions_reversed(Tail(m), to_add, feed)
         IN IF Key(entry.path, entry.digest) \notin to_add
            THEN rest
            ELSE rest \o <<PendingContent(entry, feed)>>

\* _build_additions: the second pass through the manifest; one PendingContent
\* for every entry whose key is in keys_to_add, in manifest order.
RECURSIVE build_additions(_, _, _)
build_additions(m, to_add, feed) ==
    IF m = <<>> THEN <<>>
    ELSE LET entry == Head(m)
             rest == build_additions(Tail(m), to_add, feed)
         IN IF Key(entry.path, entry.digest) \notin to_add
            THEN rest
            ELSE <<PendingContent(entry, feed)>> \o rest

\* BatchIterator(self._keys_to_remove): the keys in batches of BatchSize, the
\* last one smaller; no batch when there is no key.
RECURSIVE Batches(_)
Batches(S) ==
    IF S = {} THEN {}
    ELSE LET n == IF Cardinality(S) < BatchSize THEN Cardinality(S) ELSE BatchSize
             b == CHOOSE x \in SUBSET S : Cardinality(x) = n
         IN {b} \cup Batches(S \ b)

\* self._old_version.content().filter(q).only('id') for one batch: the content
\* units of the old version whose key is one of the batch's.
Lookup(batch, content) == {c \in content : Key(c.path, c.digest) \in batch}

\* Mutant: self._old_version.content() is evaluated before the loop over the
\* batches.
build_removals_content_first(to_remove, old_version, vs) ==
    IF old_version = None THEN [raised |-> TRUE, yielded |-> {}]
    ELSE [raised |-> FALSE,
          yielded |-> UNION {Lookup(b, (CHOOSE v \in vs : v.number = old_version).content) :
                               b \in Batches(to_remove)}]

\* Mutant: a key without a match in the old version raises.
build_removals_strict(to_remove, old_version, vs) ==
    IF Batches(to_remove) = {} THEN [raised |-> FALSE, yielded |-> {}]
    ELSE IF old_version = None THEN [raised |-> TRUE, yielded |-> {}]
    ELSE LET content == (CHOOSE v \in vs : v.number = old_version).content IN
         [raised |-> \E k \in to_remove : Lookup({k}, content) = {},
          yielded |-> UNION {Lookup(b, content) : b \in Batches(to_remove)}]

\* _build_removals: for every batch of keys to remove, the content of the old
\* version matching a key of the batch.  self._old_version.content() is
\* evaluated inside the loop over the batches: with no key to remove the old
\* version is never touched; with keys to remove and no old version the
\* attribute access on None raises.
build_removals(to_remove, old_version, vs) ==
    IF Batches(to_remove) = {} THEN [raised |-> FALSE, yielded |-> {}]
    ELSE IF old_version = None THEN [raised |-> TRUE, yielded |-> {}]
    ELSE [raised |-> FALSE,
          yielded |-> UNION {Lookup(b, (CHOOSE v \in vs : v.number = old_version).content) :
                               b \in Batches(to_remove)}]

\* ---------------------------------------------------------------- sync
TaskInit == [pc |-> "idle", importer |-> "imp_feed", error |-> "none",
             repo_last_version |-> 0, base_version |-> None, new_version |-> None]

Ended == {"idle", "done", "failed"}

\* Task t exists and stands at the given statement.
At(t, pc) == t \in DOMAIN task /\ task[t].pc = pc

\* A task that has ended: its outcome and the numbers of its base version and
\* of the version it created stay; the other locals of sync() are gone.
Finished(tk, outcome) ==
    [TaskInit EXCEPT !.pc = outcome, !.error = tk.error,
                     !.base_version = tk.base_version, !.new_version = tk.new_version]

\* Mutant: the feed_url is not validated.
SyncLoadUnvalidated(t, imp) ==
    /\ t \in DOMAIN task
    /\ task[t].pc \in Ended
    /\ last_version < MaxVersion
    /\ task' = [task EXCEPT ![t] = [TaskInit EXCEPT !.pc = "base", !.importer = imp]]
    /\ syn' = [syn EXCEPT ![t] = SynInit]
    /\ UNCHANGED <<last_version, versions, created_resources, publications,
                   published_metadata, mirror, run_returned, last_synced, pub>>

\* sync(): the importer is loaded and validated.
SyncLoad(t, imp) ==
    /\ t \in DOMAIN task
    /\ task[t].pc \in Ended
    /\ last_version < MaxVersion
    /\ IF feed_url(imp) = NoUrl
       THEN task' = [task EXCEPT ![t] = [TaskInit EXCEPT !.pc = "failed",
                                                         !.importer = imp,
                                                         !.error = "ValueError"]]
       ELSE task' = [task EXCEPT ![t] = [TaskInit EXCEPT !.pc = "base",
                                                         !.importer = imp]]
    /\ syn' = [syn EXCEPT ![t] = SynInit]
    /\ UNCHANGED <<last_version, versions, created_resources, publications,
                   published_metadata, mirror, run_returned, last_synced, pub>>

\* sync(): importer.repository is loaded (with its last_version) and the
\* latest complete version is looked up; DoesNotExist leaves None.
SyncBase(t) ==
    /\ At(t, "base")
    /\ task' = [task EXCEPT ![t].pc = "create",
                            ![t].repo_last_version = last_version,
                            ![t].base_version = LatestComplete(versions)]
    /\ UNCHANGED <<last_version, versions, created_resources, publications,
                   published_metadata, syn, mirror, run_returned, last_synced, pub>>

\* The content a new RepositoryVersion starts with: the content of the
\* version before it.
InitialContent(vs) ==
    IF vs = {} THEN {} ELSE (CHOOSE v \in vs : v.number = LatestAny(vs)).content

\* Mutant: a version is created complete.
NewVersionComplete(number, content) ==
    [number |-> number, complete |-> TRUE, content |-> content]

\* models.RepositoryVersion(repository=importer.repository), numbered: a
\* version is created incomplete.
NewVersion(number, content) ==
    [number |-> number, complete |-> FALSE, content |-> content]

\* Mutant: the number is taken from the repository row as it is when the
\* transaction runs, not from the repository object loaded before.
SyncCreateFresh(t) ==
    /\ At(t, "create")
    /\ LET number == last_version + 1 IN
       /\ versions' = versions \cup {NewVersion(number, InitialContent(versions))}
       /\ last_version' = number
       /\ created_resources' = created_resources \cup {VersionResource(number)}
       /\ task' = [task EXCEPT ![t].pc = "fetch_manifest",
                               ![t].repo_last_version = number,
                               ![t].new_version = number]
    /\ syn' = [syn EXCEPT ![t] = SynInit]
    /\ mirror' = [mirror EXCEPT ![t] = TRUE]
    /\ UNCHANGED <<publications, published_metadata, run_returned, last_synced, pub>>

\* sync(): the transaction that creates the new version, raises
\* repository.last_version and records the CreatedResource; then the
\* Synchronizer is constructed.
SyncCreate(t) ==
    /\ At(t, "create")
    /\ LET number == task[t].repo_last_version + 1 IN
       IF number \in VersionNumbers
       THEN \* (repository, number) is unique: new_version.save() raises and the
            \* transaction is rolled back; the exception leaves sync().
            /\ task' = [task EXCEPT ![t].pc = "failed", ![t].error = "IntegrityError"]
            /\ UNCHANGED <<versions, last_version, created_resources>>
       ELSE /\ versions' = versions \cup
                   {NewVersion(number, InitialContent(versions))}
            /\ last_version' = number
            /\ created_resources' = created_resources \cup {VersionResource(number)}
            /\ task' = [task EXCEPT ![t].pc = "fetch_manifest",
                                    ![t].repo_last_version = number,
                                    ![t].new_version = number]
    /\ syn' = [syn EXCEPT ![t] = SynInit]
    /\ mirror' = [mirror EXCEPT ![t] = TRUE]
    /\ UNCHANGED <<publications, published_metadata, run_returned, last_synced, pub>>

\* Mutant: an exception is recorded and the run goes on to the completing save.
RaiseAndContinue(t, error) == [task EXCEPT ![t].pc = "complete", ![t].error = error]

\* An exception raised inside the try block of sync(): control goes to the
\* except clause, and the Synchronizer is not used again.
Raise(t, error) == [task EXCEPT ![t].pc = "rollback", ![t].error = error]

\* Synchronizer._fetch_manifest: m is the manifest the feed url serves when
\* it is downloaded.
FetchManifest(t, m) ==
    /\ At(t, "fetch_manifest")
    /\ syn' = [syn EXCEPT ![t].manifest = m]
    /\ task' = [task EXCEPT ![t].pc = "fetch_inventory"]
    /\ UNCHANGED <<last_version, versions, created_resources, publications,
                   published_metadata, mirror, run_returned, last_synced, pub>>

\* Synchronizer._fetch_manifest: downloader.fetch() raises.
FetchManifestFail(t) ==
    /\ At(t, "fetch_manifest")
    /\ task' = Raise(t, "TransferError")
    /\ syn' = [syn EXCEPT ![t] = SynInit]
    /\ UNCHANGED <<last_version, versions, created_resources, publications,
                   published_metadata, mirror, run_returned, last_synced, pub>>

\* Synchronizer._fetch_inventory
FetchInventory(t) ==
    /\ At(t, "fetch_inventory")
    /\ syn' = [syn EXCEPT ![t].inventory_keys =
                   fetch_inventory(task[t].base_version, versions, @)]
    /\ task' = [task EXCEPT ![t].pc = "find_delta"]
    /\ UNCHANGED <<last_version, versions, created_resources, publications,
                   published_metadata, mirror, run_returned, last_synced, pub>>

\* Synchronizer._find_delta
FindDelta(t) ==
    /\ At(t, "find_delta")
    /\ syn' = [syn EXCEPT
                 ![t].keys_to_add = keys_to_add(syn[t].manifest, syn[t].inventory_keys),
                 ![t].keys_to_remove =
                     keys_to_remove(syn[t].manifest, syn[t].inventory_keys, mirror[t], @)]
    /\ task' = [task EXCEPT ![t].pc = "changeset"]
    /\ UNCHANGED <<last_version, versions, created_resources, publications,
                   published_metadata, mirror, run_returned, last_synced, pub>>

\* Synchronizer._find_delta: Manifest.read() raises on a malformed manifest.
FindDeltaFail(t) ==
    /\ At(t, "find_delta")
    /\ task' = Raise(t, "FormatError")
    /\ syn' = [syn EXCEPT ![t] = SynInit]
    /\ UNCHANGED <<last_version, versions, created_resources, publications,
                   published_metadata, mirror, run_returned, last_synced, pub>>

\* Synchronizer.run: the two generators are handed to the ChangeSet, which
\* draws them while it applies.
BuildChangeSet(t) ==
    /\ At(t, "changeset")
    /\ LET rem == build_removals(syn[t].keys_to_remove, task[t].base_version, versions) IN
       IF rem.raised
       THEN /\ task' = Raise(t, "AttributeError")
            /\ syn' = [syn EXCEPT ![t] = SynInit]
       ELSE /\ syn' = [syn EXCEPT
                         ![t].additions = build_additions(syn[t].manifest,
                                                          syn[t].keys_to_add,
                                                          feed_url(task[t].importer)),
                         ![t].removals = rem.yielded]
            /\ task' = [task EXCEPT ![t].pc = "apply"]
    /\ UNCHANGED <<last_version, versions, created_resources, publications,
                   published_metadata, mirror, run_returned, last_synced, pub>>

\* The new version with one content unit added or removed.
WithContent(vs, n, content) ==
    {IF v.number = n THEN [v EXCEPT !.content = content] ELSE v : v \in vs}

\* ChangeSet.apply_and_drain: one pending addition is stored and added.
ApplyAddition(t, i) ==
    /\ At(t, "apply")
    /\ i \in (1..Len(syn[t].additions)) \ syn[t].applied_add
    /\ versions' = WithContent(versions, task[t].new_version,
                       Content(task[t].new_version) \cup
                       {Key(syn[t].additions[i].path, syn[t].additions[i].digest)})
    /\ syn' = [syn EXCEPT ![t].applied_add = @ \cup {i}]
    /\ UNCHANGED <<last_version, created_resources, publications,
                   published_metadata, task, mirror, run_returned, last_synced, pub>>

\* ChangeSet.apply_and_drain: one pending removal is taken out.
ApplyRemoval(t, c) ==
    /\ At(t, "apply")
    /\ c \in syn[t].removals \ syn[t].applied_rem
    /\ versions' = WithContent(versions, task[t].new_version,
                       Content(task[t].new_version) \ {c})
    /\ syn' = [syn EXCEPT ![t].applied_rem = @ \cup {c}]
    /\ UNCHANGED <<last_version, created_resources, publications,
                   published_metadata, task, mirror, run_returned, last_synced, pub>>

\* ChangeSet.apply_and_drain raises.
ApplyFail(t) ==
    /\ At(t, "apply")
    /\ task' = Raise(t, "ApplyError")
    /\ syn' = [syn EXCEPT ![t] = SynInit]
    /\ UNCHANGED <<last_version, versions, created_resources, publications,
                   published_metadata, mirror, run_returned, last_synced, pub>>

\* ChangeSet.apply_and_drain returns, and with it Synchronizer.run.
ApplyReturn(t) ==
    /\ At(t, "apply")
    /\ syn[t].applied_add = 1..Len(syn[t].additions)
    /\ syn[t].applied_rem = syn[t].removals
    /\ task' = [task EXCEPT ![t].pc = "complete"]
    /\ run_returned' = run_returned \cup {task[t].new_version}
    /\ last_synced' = [number |-> task[t].new_version, keys |-> remote_keys(syn[t].manifest)]
    /\ UNCHANGED <<last_version, versions, created_resources, publications,
                   published_metadata, syn, mirror, pub>>

\* sync(): new_version.complete = True is saved.
Complete(t) ==
    /\ At(t, "complete")
    /\ versions' = {IF v.number = task[t].new_version
                    THEN [v EXCEPT !.complete = TRUE] ELSE v : v \in versions}
    /\ task' = [task EXCEPT ![t] = Finished(task[t], "done")]
    /\ syn' = [syn EXCEPT ![t] = SynInit]
    /\ UNCHANGED <<last_version, created_resources, publications,
                   published_metadata, mirror, run_returned, last_synced, pub>>

\* sync(): saving new_version.complete = True raises.
CompleteFail(t) ==
    /\ At(t, "complete")
    /\ task' = Raise(t, "DatabaseError")
    /\ syn' = [syn EXCEPT ![t] = SynInit]
    /\ UNCHANGED <<last_version, versions, created_resources, publications,
                   published_metadata, mirror, run_returned, last_synced, pub>>

\* Mutant: the except clause deletes the new version only.
RollbackVersionOnly(t) ==
    /\ At(t, "rollback")
    /\ versions' = {v \in versions : v.number # task[t].new_version}
    /\ task' = [task EXCEPT ![t] = Finished(task[t], "failed")]
    /\ syn' = [syn EXCEPT ![t] = SynInit]
    /\ UNCHANGED <<last_version, created_resources, publications, published_metadata,
                   mirror, run_returned, last_synced, pub>>

\* Mutant: the except clause does not raise again, sync() returns normally.
RollbackSwallow(t) ==
    /\ At(t, "rollback")
    /\ versions' = {v \in versions : v.number # task[t].new_version}
    /\ created_resources' = created_resources \ {VersionResource(task[t].new_version)}
    /\ task' = [task EXCEPT ![t] = Finished(task[t], "done")]
    /\ syn' = [syn EXCEPT ![t] = SynInit]
    /\ UNCHANGED <<last_version, publications, published_metadata,
                   mirror, run_returned, last_synced, pub>>

\* Mutant: the except clause also takes back the version number.
RollbackRestoresCounter(t) ==
    /\ At(t, "rollback")
    /\ versions' = {v \in versions : v.number # task[t].new_version}
    /\ created_resources' = created_resources \ {VersionResource(task[t].new_version)}
    /\ last_version' = task[t].new_version - 1
    /\ task' = [task EXCEPT ![t] = Finished(task[t], "failed")]
    /\ syn' = [syn EXCEPT ![t] = SynInit]
    /\ UNCHANGED <<publications, published_metadata,
                   mirror, run_returned, last_synced, pub>>

\* sync(): the except clause deletes the new version and its CreatedResource
\* and raises again.
Rollback(t) ==
    /\ At(t, "rollback")
    /\ versions' = {v \in versions : v.number # task[t].new_version}
    /\ created_resources' = created_resources \ {VersionResource(task[t].new_version)}
    /\ task' = [task EXCEPT ![t] = Finished(task[t], "failed")]
    /\ syn' = [syn EXCEPT ![t] = SynInit]
    /\ UNCHANGED <<last_version, publications, published_metadata,
                   mirror, run_returned, last_synced, pub>>

\* The inventory changes under the Synchronizer: the old version loses content
\* unit c after the inventory was read and before the removals are looked up.
InventoryLoses(t, c) ==
    /\ At(t, "changeset")
    /\ task[t].base_version # None
    /\ c \in Content(task[t].base_version)
    /\ versions' = WithContent(versions, task[t].base_version,
                       Content(task[t].base_version) \ {c})
    /\ UNCHANGED <<last_version, created_resources, publications, published_metadata,
                   task, syn, mirror, run_returned, last_synced, pub>>

\* ------------------------------------------------------------- publish
PubInit == [pc |-> "idle", error |-> "none", repository_version |-> None]

\* publish(): the publisher and the repository are loaded and the latest
\* complete version is looked up; latest() raises DoesNotExist when there is none.
\* A version is published once: a second Publication of the same version
\* would repeat the first.
PublishLoad ==
    /\ pub.pc \in Ended
    /\ LatestComplete(versions) \notin publications
    /\ IF LatestComplete(versions) = None
       THEN pub' = [PubInit EXCEPT !.pc = "failed", !.error = "DoesNotExist"]
       ELSE pub' = [PubInit EXCEPT !.pc = "transaction",
                                   !.repository_version = LatestComplete(versions)]
    /\ UNCHANGED <<last_version, versions, created_resources, publications,
                   published_metadata, task, syn, mirror, run_returned, last_synced>>

\* publish(): the transaction saves the Publication and its CreatedResource,
\* writes the manifest and saves the PublishedMetadata.
PublishTransaction ==
    /\ pub.pc = "transaction"
    /\ LET id == pub.repository_version IN
       /\ publications' = publications \cup {id}
       /\ created_resources' = created_resources \cup {PublicationResource(id)}
       /\ published_metadata' = published_metadata \cup {id}
    /\ pub' = [pub EXCEPT !.pc = "done"]
    /\ UNCHANGED <<last_version, versions, task, syn, mirror, run_returned, last_synced>>

\* publish(): writing the manifest or saving the metadata raises; the except
\* clause deletes the Publication and its CreatedResource and the exception is
\* dropped: publish() goes on to log the publication as created and returns.
PublishTransactionFail ==
    /\ pub.pc = "transaction"
    /\ pub' = [pub EXCEPT !.pc = "done", !.error = "swallowed"]
    /\ UNCHANGED <<last_version, versions, created_resources, publications,
                   published_metadata, task, syn, mirror, run_returned, last_synced>>

\* ------------------------------------------------------- specifications
Init ==
    /\ last_version = 0
    /\ versions = {}
    /\ created_resources = {}
    /\ publications = {}
    /\ published_metadata = {}
    /\ task = [t \in {"t1"} |-> TaskInit]
    /\ syn = [t \in {"t1"} |-> SynInit]
    /\ mirror = [t \in {"t1"} |-> TRUE]
    /\ run_returned = {}
    /\ last_synced = [number |-> None, keys |-> {}]
    /\ pub = PubInit

Next ==
    \/ \E t \in Tasks, imp \in Importers : SyncLoad(t, imp)
    \/ \E t \in Tasks : SyncBase(t)
    \/ \E t \in Tasks : SyncCreate(t)
    \/ \E t \in Tasks, m \in Manifests : FetchManifest(t, m)
    \/ \E t \in Tasks : FetchManifestFail(t)
    \/ \E t \in Tasks : FetchInventory(t)
    \/ \E t \in Tasks : FindDelta(t)
    \/ \E t \in Tasks : FindDeltaFail(t)
    \/ \E t \in Tasks : BuildChangeSet(t)
    \/ \E t \in Tasks, i \in 1..MaxLen : ApplyAddition(t, i)
    \/ \E t \in Tasks, c \in Keys : ApplyRemoval(t, c)
    \/ \E t \in Tasks : ApplyFail(t)
    \/ \E t \in Tasks : ApplyReturn(t)
    \/ \E t \in Tasks : Complete(t)
    \/ \E t \in Tasks : CompleteFail(t)
    \/ \E t \in Tasks : Rollback(t)
    \/ PublishLoad
    \/ PublishTransaction
    \/ PublishTransactionFail

Spec == Init /\ [][Next]_vars

\* The manifests served while two tasks interleave: the empty one and one of
\* a single entry, enough for a sync to add and for the next to remove.
ConcurrentManifests == {<<>>, <<Entry("a", "d1", 10)>>}

\* Two sync tasks of the same repository, their statements interleaved; each
\* transaction is one step.
InitConcurrent ==
    /\ last_version = 0
    /\ versions = {}
    /\ created_resources = {}
    /\ publications = {}
    /\ published_metadata = {}
    /\ task = [t \in Tasks |-> TaskInit]
    /\ syn = [t \in Tasks |-> SynInit]
    /\ mirror = [t \in Tasks |-> TRUE]
    /\ run_returned = {}
    /\ last_synced = [number |-> None, keys |-> {}]
    /\ pub = PubInit

NextConcurrent ==
    \/ \E t \in Tasks, imp \in Importers : SyncLoad(t, imp)
    \/ \E t \in Tasks : SyncBase(t)
    \/ \E t \in Tasks : SyncCreate(t)
    \/ \E t \in Tasks, m \in ConcurrentManifests : FetchManifest(t, m)
    \/ \E t \in Tasks : FetchManifestFail(t)
    \/ \E t \in Tasks : FetchInventory(t)
    \/ \E t \in Tasks : FindDelta(t)
    \/ \E t \in Tasks : FindDeltaFail(t)
    \/ \E t \in Tasks : BuildChangeSet(t)
    \/ \E t \in Tasks, i \in 1..MaxLen : ApplyAddition(t, i)
    \/ \E t \in Tasks, c \in Keys : ApplyRemoval(t, c)
    \/ \E t \in Tasks : ApplyFail(t)
    \/ \E t \in Tasks : ApplyReturn(t)
    \/ \E t \in Tasks : Complete(t)
    \/ \E t \in Tasks : CompleteFail(t)
    \/ \E t \in Tasks : Rollback(t)

SpecConcurrent == InitConcurrent /\ [][NextConcurrent]_vars

\* A Synchronizer driven method by method, in the order of run(), over every
\* manifest, every old version (or none) and either value of the mirror
\* argument of _find_delta; the old version may lose content between the
\* inventory snapshot and the lookup of the removals.
InitSynchronizer ==
    \E old \in {None, 1}, L \in SUBSET Keys, mir \in BOOLEAN :
        /\ old = None => L = {}
        /\ last_version = old + 1
        /\ versions = (IF old = None THEN {}
                       ELSE {[number |-> old, complete |-> TRUE, content |-> L]})
                      \cup {NewVersion(old + 1, L)}
        /\ created_resources = {VersionResource(n) : n \in 1..(old + 1)}
        /\ publications = {}
        /\ published_metadata = {}
        /\ task = [t \in {"t1"} |->
                     [TaskInit EXCEPT !.pc = "fetch_manifest",
                                      !.repo_last_version = old + 1,
                                      !.base_version = old,
                                      !.new_version = old + 1]]
        /\ syn = [t \in {"t1"} |-> SynInit]
        /\ mirror = [t \in {"t1"} |-> mir]
        /\ run_returned = 1..old
        /\ last_synced = [number |-> old, keys |-> L]
        /\ pub = PubInit

NextSynchronizer ==
    \/ \E t \in Tasks, m \in Manifests : FetchManifest(t, m)
    \/ \E t \in Tasks : FetchInventory(t)
    \/ \E t \in Tasks : FindDelta(t)
    \/ \E t \in Tasks, c \in Keys : InventoryLoses(t, c)
    \/ \E t \in Tasks : BuildChangeSet(t)
    \/ \E t \in Tasks, i \in 1..MaxLen : ApplyAddition(t, i)
    \/ \E t \in Tasks, c \in Keys : ApplyRemoval(t, c)
    \/ \E t \in Tasks : ApplyReturn(t)

SpecSynchronizer == InitSynchronizer /\ [][NextSynchronizer]_vars

\* ================================================================ claims
\* Key k is listed on some line of manifest m.
InManifest(k, m) ==
    \E i \in 1..Len(m) : m[i].path = k.path /\ m[i].digest = k.digest
Listed(m) == {k \in Keys : InManifest(k, m)}

\* _find_delta has run and the Synchronizer of t is still in use.
DeltaComputed(t) == t \in DOMAIN task /\ task[t].pc \in {"changeset", "apply", "complete"}

\* n is the number of the latest complete version among vs.
IsLatestComplete(vs, n) ==
    /\ \E v \in vs : v.number = n /\ v.complete
    /\ \A w \in vs : w.complete => w.number <= n
ContentIn(vs, n) == (CHOOSE v \in vs : v.number = n).content

\* C1: after _find_delta with mirror=true the add set is keys(R) minus L, the
\* remove set is L minus keys(R), and the two have no key in common.
C1_FindDeltaMirror ==
    \A t \in DOMAIN task :
        (DeltaComputed(t) /\ mirror[t]) =>
            LET R == Listed(syn[t].manifest)
                L == syn[t].inventory_keys
            IN /\ syn[t].keys_to_add = R \ L
               /\ syn[t].keys_to_remove = L \ R
               /\ syn[t].keys_to_add \cap syn[t].keys_to_remove = {}

C1_Witness ==
    \E t \in DOMAIN task :
        /\ DeltaComputed(t) /\ mirror[t]
        /\ syn[t].keys_to_add # {}
        /\ syn[t].keys_to_remove # {}
        /\ syn[t].inventory_keys \cap Listed(syn[t].manifest) # {}

\* The latest complete version, the version publish has read and the base
\* version of every sync are versions whose Synchronizer.run() returned; after
\* a failed sync the latest complete version is the one the sync started from.
C2_ReadersSeeFinished ==
    /\ \A n \in VersionNumbers : IsLatestComplete(versions, n) => n \in run_returned
    /\ pub.repository_version # None => pub.repository_version \in run_returned
    /\ \A t \in DOMAIN task :
        /\ task[t].base_version # None => task[t].base_version \in run_returned
        /\ (task[t].pc = "failed" /\ task[t].new_version # None) =>
              IF task[t].base_version = None
              THEN \A v \in versions : ~v.complete
              ELSE IsLatestComplete(versions, task[t].base_version)
\* A step that does not complete a version leaves the latest complete version
\* and its content as they were.
C2_FailureKeepsLatest ==
    (~ \E t \in DOMAIN task : task[t].pc = "complete" /\ task'[t].pc = "done") =>
        /\ \A n \in VersionNumbers :
              IsLatestComplete(versions, n) =>
                  /\ IsLatestComplete(versions', n)
                  /\ ContentIn(versions', n) = ContentIn(versions, n)
        /\ (\A v \in versions : ~v.complete) => (\A v \in versions' : ~v.complete)
\* C2: a failed sync leaves the latest complete version and its content as
\* they were, and the version that sync and publish read as latest is always
\* one whose Synchronizer.run() returned.
C2_FailedSyncKeepsLatest ==
    []C2_ReadersSeeFinished /\ [][C2_FailureKeepsLatest]_vars

C2_Witness ==
    \E t \in DOMAIN task :
        /\ task[t].pc = "failed"
        /\ task[t].error = "ApplyError"
        /\ task[t].base_version # None
        /\ pub.repository_version = task[t].base_version

C4_CompleteOnlyAfterRun ==
    /\ \A v \in versions : v.complete => v.number \in run_returned
    /\ \A t \in DOMAIN task :
          /\ task[t].pc \in {"fetch_manifest", "fetch_inventory", "find_delta",
                             "changeset", "apply", "complete", "rollback"} =>
                \A v \in versions : v.number = task[t].new_version => ~v.complete
          /\ task[t].pc \in {"fetch_manifest", "fetch_inventory", "find_delta",
                             "changeset", "apply"} =>
                task[t].new_version \notin run_returned
          /\ task[t].pc = "complete" =>
                /\ syn[t].applied_add = 1..Len(syn[t].additions)
                /\ syn[t].applied_rem = syn[t].removals

C4_Witness ==
    /\ \E v \in versions : v.complete
    /\ \E t \in DOMAIN task : task[t].pc = "rollback" /\ task[t].error = "ApplyError"

\* A sync for an importer with an empty feed_url has ended with ValueError.
C5_EmptyFeedEnds ==
    \A t \in DOMAIN task :
        feed_url(task[t].importer) = NoUrl =>
            /\ task[t].pc = "failed"
            /\ task[t].error = "ValueError"
            /\ task[t].new_version = None
\* The step that raises ValueError changes nothing persisted.
C5_EmptyFeedStep ==
    \A t \in DOMAIN task :
        (task'[t] # task[t] /\ task'[t].error = "ValueError") =>
            /\ versions' = versions
            /\ last_version' = last_version
            /\ created_resources' = created_resources
\* C5: sync for an importer with an empty feed_url ends with ValueError and
\* creates no version, does not raise last_version and records no CreatedResource.
C5_EmptyFeedNoMutation ==
    []C5_EmptyFeedEnds /\ [][C5_EmptyFeedStep]_vars

C5_Witness ==
    \E t \in DOMAIN task :
        /\ task[t].pc = "failed"
        /\ task[t].error = "ValueError"
        /\ versions # {}

\* C6: when a mirror sync has applied its whole delta, in whatever order the
\* additions and removals were applied, the content of the new version is the
\* prior content less the removals plus the additions, and that is the key set
\* of the remote manifest.
C6_MirrorContentIsRemote ==
    \A t \in DOMAIN task :
        /\ (mirror[t] /\ task[t].pc = "complete") =>
              /\ Content(task[t].new_version) =
                    (syn[t].inventory_keys \ syn[t].keys_to_remove) \cup syn[t].keys_to_add
              /\ Content(task[t].new_version) = Listed(syn[t].manifest)
        /\ (mirror[t] /\ task[t].pc = "done"
              /\ last_synced.number = task[t].new_version) =>
              Content(task[t].new_version) = last_synced.keys

C6_Witness ==
    \E t \in DOMAIN task :
        /\ mirror[t] /\ task[t].pc = "complete"
        /\ syn[t].removals # {}
        /\ syn[t].additions # <<>>
        /\ syn[t].inventory_keys \cap Listed(syn[t].manifest) # {}

\* The sync of t starts from the version of the latest successful sync and
\* has fetched a manifest listing the same keys as that sync's manifest.
Resync(t) ==
    /\ mirror[t]
    /\ task[t].base_version # None
    /\ task[t].base_version = last_synced.number
    /\ Listed(syn[t].manifest) = last_synced.keys
\* C7: a mirror sync run again on the version of the latest successful sync,
\* with a manifest listing the same keys, computes an empty add set and an
\* empty remove set, and its version has the content of the first.
C7_SecondSyncEmptyDelta ==
    \A t \in DOMAIN task :
        /\ (DeltaComputed(t) /\ Resync(t)) =>
              /\ syn[t].keys_to_add = {}
              /\ syn[t].keys_to_remove = {}
        /\ (task[t].pc = "apply" /\ Resync(t)) =>
              /\ syn[t].additions = <<>>
              /\ syn[t].removals = {}
              /\ Content(task[t].new_version) = Content(task[t].base_version)

C7_Witness ==
    \E t \in DOMAIN task :
        /\ task[t].pc = "apply" /\ Resync(t)
        /\ Len(syn[t].manifest) = MaxLen
        /\ Content(task[t].new_version) # {}

\* C8: with no prior version, under either value of mirror, the inventory is
\* empty, the remove set is empty, the add set is every remote key, no error
\* is raised and the removals generator yields nothing without touching the
\* absent old version.
C8_FirstSync ==
    \A t \in DOMAIN task :
        (task[t].base_version = None) =>
            /\ task[t].error # "AttributeError"
            /\ task[t].pc \in {"find_delta", "changeset", "apply", "complete"} =>
                  syn[t].inventory_keys = {}
            /\ DeltaComputed(t) =>
                  /\ syn[t].keys_to_remove = {}
                  /\ syn[t].keys_to_add = Listed(syn[t].manifest)
            /\ task[t].pc \in {"apply", "complete"} => syn[t].removals = {}

C8_Witness ==
    \E t \in DOMAIN task :
        /\ task[t].base_version = None
        /\ ~mirror[t]
        /\ task[t].pc = "complete"
        /\ syn[t].additions # <<>>

\* C9: after _find_delta with mirror=false the remove set is empty and the add
\* set is keys(R) minus L; the local content absent from the manifest stays in
\* the new version.
C9_FindDeltaNoMirror ==
    \A t \in DOMAIN task :
        ~mirror[t] =>
            /\ DeltaComputed(t) =>
                  /\ syn[t].keys_to_remove = {}
                  /\ syn[t].keys_to_add =
                        Listed(syn[t].manifest) \ syn[t].inventory_keys
            /\ task[t].pc = "complete" =>
                  syn[t].inventory_keys \subseteq Content(task[t].new_version)

C9_Witness ==
    \E t \in DOMAIN task :
        /\ ~mirror[t]
        /\ task[t].pc = "complete"
        /\ syn[t].inventory_keys \ Listed(syn[t].manifest) # {}
        /\ syn[t].keys_to_add # {}

\* The last line of manifest m that lists key k.
LastLine(m, k) ==
    Max({i \in 1..Len(m) : m[i].path = k.path /\ m[i].digest = k.digest})
\* C10: no two PendingContent yielded by _build_additions share a (path,
\* digest) key, and a key listed more than once gets its one descriptor from
\* the last line that lists it.
C10_OneDescriptorPerKey ==
    \A t \in DOMAIN task :
        task[t].pc \in {"apply", "complete"} =>
            LET a == syn[t].additions IN
            /\ \A i, j \in 1..Len(a) :
                  (a[i].path = a[j].path /\ a[i].digest = a[j].digest) => i = j
            /\ \A i \in 1..Len(a) :
                  a[i].size = syn[t].manifest[LastLine(syn[t].manifest,
                                                       Key(a[i].path, a[i].digest))].size

\* The lines of manifest m whose key is in the set to_add.
Selected(m, to_add) ==
    {i \in 1..Len(m) : Key(m[i].path, m[i].digest) \in to_add}
\* The j-th of them, in manifest order.
NthSelected(m, to_add, j) ==
    CHOOSE i \in Selected(m, to_add) :
        Cardinality({x \in Selected(m, to_add) : x <= i}) = j

\* C11: the descriptors yielded by _build_additions are the manifest's lines
\* whose key is in the add set, in manifest order, each with the path, digest
\* and size of its line; every descriptor's key is in the add set and every
\* key of the add set has a descriptor.
C11_AdditionsAreFilteredManifest ==
    \A t \in DOMAIN task :
        task[t].pc \in {"apply", "complete"} =>
            LET a == syn[t].additions
                m == syn[t].manifest
                A == syn[t].keys_to_add
            IN /\ Len(a) = Cardinality(Selected(m, A))
               /\ \A j \in 1..Len(a) :
                     /\ a[j].path = m[NthSelected(m, A, j)].path
                     /\ a[j].digest = m[NthSelected(m, A, j)].digest
                     /\ a[j].size = m[NthSelected(m, A, j)].size
                     /\ Key(a[j].path, a[j].digest) \in A
               /\ \A k \in A :
                     \E j \in 1..Len(a) : a[j].path = k.path /\ a[j].digest = k.digest

C11_Witness ==
    \E t \in DOMAIN task :
        /\ task[t].pc = "apply"
        /\ Len(syn[t].additions) = 2
        /\ syn[t].additions[1] # syn[t].additions[2]
        /\ syn[t].inventory_keys # {}

\* C12: _build_removals yields exactly the content units of the old version,
\* as it is when they are looked up, whose key is in the remove set; a key of
\* the remove set without a match yields nothing and raises nothing, and the
\* other keys are still resolved.
C12_RemovalsAreMatches ==
    \A t \in DOMAIN task :
        /\ task[t].error = "none"
        /\ task[t].pc \in {"apply", "complete"} =>
              \A k \in Keys :
                  k \in syn[t].removals <=>
                      /\ k \in syn[t].keys_to_remove
                      /\ task[t].base_version # None
                      /\ k \in Content(task[t].base_version)

C12_Witness ==
    \E t \in DOMAIN task :
        /\ task[t].pc = "apply"
        /\ Cardinality(syn[t].keys_to_remove) > BatchSize
        /\ syn[t].keys_to_remove \ Content(task[t].base_version) # {}
        /\ syn[t].removals # {}

\* The statements of a sync in the order of the code, numbered.
StepNo(pc) ==
    CASE pc = "fetch_manifest" -> 1
      [] pc = "fetch_inventory" -> 2
      [] pc = "find_delta" -> 3
      [] pc = "changeset" -> 4
      [] pc = "apply" -> 5
      [] pc = "complete" -> 6
      [] OTHER -> 0

RunSteps == {"fetch_manifest", "fetch_inventory", "find_delta", "changeset",
             "apply", "complete"}

\* Where a task may go from where it is.
StepAllowed(from, to) ==
    \/ from \in Ended /\ to \in {"base", "failed"}
    \/ from = "base" /\ to = "create"
    \/ from = "create" /\ to \in {"fetch_manifest", "failed"}
    \/ from \in RunSteps /\ to \in RunSteps /\ StepNo(to) = StepNo(from) + 1
    \/ from = "complete" /\ to = "done"
    \/ from \in RunSteps /\ to = "rollback"
    \/ from = "rollback" /\ to = "failed"

\* A step has no result before it has run, and a task with an error is in
\* the except clause or has ended as failed.
C13_NoStepEarly ==
    \A t \in DOMAIN task :
        /\ task[t].error # "none" => task[t].pc \in {"rollback", "failed"}
        /\ task[t].pc \in RunSteps =>
              /\ StepNo(task[t].pc) <= 1 => syn[t].manifest = <<>>
              /\ StepNo(task[t].pc) <= 2 => syn[t].inventory_keys = {}
              /\ StepNo(task[t].pc) <= 3 =>
                    syn[t].keys_to_add = {} /\ syn[t].keys_to_remove = {}
              /\ StepNo(task[t].pc) <= 4 =>
                    /\ syn[t].additions = <<>> /\ syn[t].removals = {}
                    /\ syn[t].applied_add = {} /\ syn[t].applied_rem = {}
\* Every step of a task goes to the next statement, or from a step of the run
\* to the except clause and from there to the failed end.
C13_StepTransition ==
    \A t \in DOMAIN task :
        task'[t].pc # task[t].pc => StepAllowed(task[t].pc, task'[t].pc)
\* C13: a sync goes through fetch manifest, fetch inventory, find delta,
\* building the additions and removals, apply and the completing save in that
\* order, no step skipped, repeated or started early; a failure in a step goes
\* to the except clause and to the failed end, and no later step runs.
C13_LinearOrder ==
    []C13_NoStepEarly /\ [][C13_StepTransition]_vars

C13_Witness ==
    /\ \E t \in DOMAIN task : task[t].pc = "failed" /\ task[t].error = "FormatError"
    /\ \E v \in versions : v.complete

\* A sync that ended normally had no error, and the version it created
\* exists and is complete (a later sync does not delete it); a sync that
\* ended as failed carries its error and its version is deleted.
C14_Outcome ==
    \A t \in DOMAIN task :
        /\ task[t].pc = "done" =>
              /\ task[t].error = "none"
              /\ \E v \in versions : v.number = task[t].new_version /\ v.complete
        /\ task[t].pc = "failed" =>
              /\ task[t].error # "none"
              /\ task[t].new_version \notin VersionNumbers
\* An error, once raised, stays with the task until a new sync starts, and
\* the task ends as failed right after the except clause.
C14_ErrorKept ==
    \A t \in DOMAIN task :
        /\ (task[t].error # "none" /\ task[t].pc = "rollback") =>
              \/ task'[t] = task[t]
              \/ task'[t].pc = "failed" /\ task'[t].error = task[t].error
        /\ (task[t].pc \in RunSteps /\ task'[t].error # "none") =>
              task'[t].pc = "rollback"
\* C14: every failure raised in the run of a sync or in the completing save
\* reaches the caller as that error, after the except clause deleted the
\* version; a sync never ends normally after a step failed.
C14_FailurePropagates ==
    []C14_Outcome /\ [][C14_ErrorKept]_vars

C14_Witness ==
    \E t \in DOMAIN task :
        /\ task[t].pc = "failed"
        /\ task[t].error = "DatabaseError"
        /\ task[t].new_version # None
        /\ task[t].new_version \in run_returned

\* C15: when the ChangeSet gets the two sequences, the additions hold
\* len(keys_to_add) descriptors and the removals len(keys_to_remove)
\* identifiers, the sizes run() declares for them.
C15_DeclaredSizes ==
    \A t \in DOMAIN task :
        task[t].pc \in {"apply", "complete"} =>
            /\ Len(syn[t].additions) = Cardinality(syn[t].keys_to_add)
            /\ Cardinality(syn[t].removals) = Cardinality(syn[t].keys_to_remove)

\* Every version, existing or deleted, has a number of 1..last_version, and
\* no two existing versions share a number.
C16_NumbersBounded ==
    /\ VersionNumbers \subseteq 1..last_version
    /\ \A v, w \in versions : v.number = w.number => v = w
    /\ \A t \in DOMAIN task :
          task[t].new_version # None => task[t].new_version \in 1..last_version
\* last_version is never lowered; a version that appears has the number
\* last_version + 1, above every number given before, and last_version is
\* raised to it in the same step.
C16_NumberStep ==
    /\ last_version' >= last_version
    /\ \A n \in VersionNumbers' \ VersionNumbers :
          n = last_version + 1 /\ last_version' = n
    /\ last_version' # last_version => last_version' \in VersionNumbers' \ VersionNumbers
\* C16: with syncs of a repository running one after another, succeeding or
\* failing, each new version is numbered last_version + 1 and last_version is
\* raised to it and never lowered; numbers are unique, never above
\* last_version, and the number of a deleted version is not given again.
C16_NumbersNotReused ==
    []C16_NumbersBounded /\ [][C16_NumberStep]_vars

C16_Witness ==
    /\ last_version = 2
    /\ 1 \notin VersionNumbers
    /\ \E v \in versions : v.number = 2 /\ v.complete
    /\ \E t \in DOMAIN task : task[t].pc = "done" /\ task[t].base_version = None

\* The statements at which a task holds the version it created.
HoldsVersion(t) == task[t].pc \in RunSteps \cup {"rollback"}

\* C17, as stated: each of two interleaved sync tasks creates its version, the
\* two numbers differ, and last_version is not below the number of a created
\* version.
C17_InterleavedDistinct ==
    \A t, u \in DOMAIN task :
        /\ task[t].error # "IntegrityError"
        /\ (t # u /\ HoldsVersion(t) /\ HoldsVersion(u)) =>
              task[t].new_version # task[u].new_version
        /\ (HoldsVersion(t) \/ task[t].pc = "done") =>
              task[t].new_version <= last_version

\* Existing versions have distinct numbers, and so have the versions two
\* running tasks hold.
C17_ExistingDistinct ==
    /\ \A v, w \in versions : v.number = w.number => v = w
    /\ \A t, u \in DOMAIN task :
          (t # u /\ HoldsVersion(t) /\ HoldsVersion(u)) =>
              task[t].new_version # task[u].new_version
\* The number a task uses is one more than the last_version it loaded, however
\* last_version has changed since: if a version of that number exists the
\* create transaction fails and changes nothing, otherwise the version gets
\* that number and last_version is set to it.
C17_CreateStep ==
    \A t \in DOMAIN task :
        /\ (task[t].pc = "base" /\ task'[t].pc # "base") =>
              task'[t].pc = "create" /\ task'[t].repo_last_version = last_version
        /\ (task[t].pc = "create" /\ task'[t] # task[t]) =>
              LET number == task[t].repo_last_version + 1 IN
              IF number \in VersionNumbers
              THEN /\ task'[t].pc = "failed"
                   /\ task'[t].error = "IntegrityError"
                   /\ versions' = versions
                   /\ last_version' = last_version
              ELSE /\ task'[t].pc = "fetch_manifest"
                   /\ task'[t].new_version = number
                   /\ VersionNumbers' = VersionNumbers \cup {number}
                   /\ last_version' = number
\* C17 amended: two interleaved sync tasks never hold versions of the same
\* number, but a task that loaded the repository before the other's create
\* computes the other's number: its create fails on the unique number, or
\* takes the number again after the other's version was deleted, and
\* last_version is set to the creating task's number whatever it was.
C17_StaleCreate ==
    []C17_ExistingDistinct /\ [][C17_CreateStep]_vars

C17_Witness ==
    \E t, u \in DOMAIN task :
        /\ task[t].error = "IntegrityError"
        /\ HoldsVersion(u)
        /\ task[u].new_version = task[t].repo_last_version + 1

\* C18: when publish has ended normally, the Publication of the version it
\* read, its CreatedResource and its PublishedMetadata exist.
C18_PublishAllOrNothing ==
    pub.pc = "done" =>
        /\ pub.repository_version \in publications
        /\ PublicationResource(pub.repository_version) \in created_resources
        /\ pub.repository_version \in published_metadata
====
